---------------------------- MODULE Spec2Model ----------------------------
(***************************************************************************)
(* A model of the infra-gym test harness (src/harness/run_tests.py): the   *)
(* report parsers, the FAIL_TO_PASS / PASS_TO_PASS classification, the     *)
(* per-instance pipeline process_instance with the driver loop of main,    *)
(* and ensure_bare_clone under several runs that share a work directory.   *)
(*                                                                         *)
(* Python strings are sequences of one-character strings, so that          *)
(* startswith / endswith / "in" / split / strip are computed, not assumed. *)
(***************************************************************************)
EXTENDS Integers, Sequences, FiniteSets, TLC

(***************************************************************************)
(* Bounds of the model.                                                    *)
(***************************************************************************)
\* test cases in one structured report
MaxCases == 2
\* verbose lines in one raw log
MaxLines == 2

(***************************************************************************)
(* Strings.                                                                *)
(***************************************************************************)
\* the characters the model's strings use, in code point order
AsciiOrder ==
    << " ", "%", ".", "/", "0", "1", "5", ":",
       "A", "D", "E", "F", "I", "K", "L", "M", "O", "P", "R", "S", "T", "U",
       "[", "]", "_",
       "a", "d", "e", "f", "g", "k", "m", "o", "p", "s", "t", "x", "y" >>

Ord(c) == CHOOSE i \in 1..Len(AsciiOrder) : AsciiOrder[i] = c

\* str.islower() of a one-character string
LowerChars == {"a", "d", "e", "f", "g", "k", "m", "o", "p", "s", "t", "x", "y"}

\* the characters str.strip() removes
Whitespace == {" "}

\* Python's s < t on strings
RECURSIVE StrLess(_, _)
StrLess(s, t) ==
    IF t = <<>> THEN FALSE
    ELSE IF s = <<>> THEN TRUE
    ELSE IF Head(s) = Head(t) THEN StrLess(Tail(s), Tail(t))
    ELSE Ord(Head(s)) < Ord(Head(t))

StartsWith(s, p) == Len(p) <= Len(s) /\ SubSeq(s, 1, Len(p)) = p

EndsWith(s, p) == Len(p) <= Len(s) /\ SubSeq(s, Len(s) - Len(p) + 1, Len(s)) = p

\* the positions at which p occurs in s
Occurrences(s, p) ==
    {i \in 1..(Len(s) - Len(p) + 1) : SubSeq(s, i, i + Len(p) - 1) = p}

\* p in s
Contains(s, p) == Occurrences(s, p) # {}

Min(S) == CHOOSE x \in S : \A y \in S : x <= y

\* s.split(p)[0]
BeforeFirst(s, p) ==
    IF Contains(s, p) THEN SubSeq(s, 1, Min(Occurrences(s, p)) - 1) ELSE s

\* s.strip()
RECURSIVE LStrip(_)
LStrip(s) ==
    IF s # <<>> /\ Head(s) \in Whitespace THEN LStrip(Tail(s)) ELSE s

RECURSIVE RStrip(_)
RStrip(s) ==
    IF s # <<>> /\ s[Len(s)] \in Whitespace
    THEN RStrip(SubSeq(s, 1, Len(s) - 1))
    ELSE s

Strip(s) == RStrip(LStrip(s))

\* s.split(c) for a one-character separator c
RECURSIVE Split(_, _)
Split(s, c) ==
    IF Contains(s, <<c>>)
    THEN LET i == Min(Occurrences(s, <<c>>))
         IN  <<SubSeq(s, 1, i - 1)>> \o Split(SubSeq(s, i + 1, Len(s)), c)
    ELSE <<s>>

\* sep.join(parts)
RECURSIVE Join(_, _)
Join(parts, sep) ==
    IF parts = <<>> THEN <<>>
    ELSE IF Len(parts) = 1 THEN parts[1]
    ELSE parts[1] \o sep \o Join(Tail(parts), sep)

\* s.replace(".", "/")
DotsToSlashes(s) == [i \in 1..Len(s) |-> IF s[i] = "." THEN "/" ELSE s[i]]

Range(q) == {q[i] : i \in 1..Len(q)}

\* sorted(S) for a set of strings
RECURSIVE Sorted(_)
Sorted(S) ==
    IF S = {} THEN <<>>
    ELSE LET m == CHOOSE x \in S : \A y \in S \ {x} : StrLess(x, y)
         IN  <<m>> \o Sorted(S \ {m})

\* the sequences over S of length at most n
SeqsUpTo(S, n) == UNION {[1..k -> S] : k \in 0..n}

DOT_PY == <<".", "p", "y">>
SEP == <<":", ":">>
TEST_ == <<"t", "e", "s", "t", "_">>

(***************************************************************************)
(* Test reports: four lists of node ids.                                   *)
(***************************************************************************)
EmptyReport == [passed |-> <<>>, failed |-> <<>>, errors |-> <<>>, skipped |-> <<>>]

\* a report is taken for empty as soon as nothing passed
IsEmptyReport_PassedOnly(r) == r.passed = <<>>

\* not any(results[k] for k in results)
IsEmptyReport(r) ==
    r.passed = <<>> /\ r.failed = <<>> /\ r.errors = <<>> /\ r.skipped = <<>>

(***************************************************************************)
(* _make_node_id: JUnit classname + name -> pytest node id.                *)
(***************************************************************************)
\* p[0:1].islower() or p.startswith("test_")
IsFilePart(p) == (p # <<>> /\ p[1] \in LowerChars) \/ StartsWith(p, TEST_)

\* how many leading dot-segments go to file_parts before found_class is set
RECURSIVE LeadingFileParts(_)
LeadingFileParts(parts) ==
    IF parts # <<>> /\ IsFilePart(Head(parts))
    THEN 1 + LeadingFileParts(Tail(parts))
    ELSE 0

_make_node_id(classname, name) ==
    IF classname = <<>>
    THEN IF Contains(name, <<".">>) /\ ~Contains(name, SEP) /\ ~EndsWith(name, DOT_PY)
         THEN Join(Split(name, "."), <<"/">>) \o DOT_PY
         ELSE name
    ELSE LET parts == Split(classname, ".")
             k == LeadingFileParts(parts)
             file_parts == SubSeq(parts, 1, k)
             class_parts == SubSeq(parts, k + 1, Len(parts))
             raw == IF file_parts # <<>>
                    THEN Join(file_parts, <<"/">>) \o DOT_PY
                    ELSE DotsToSlashes(classname) \o DOT_PY
             file_path == IF EndsWith(raw, DOT_PY \o DOT_PY)
                          THEN SubSeq(raw, 1, Len(raw) - 3)
                          ELSE raw
         IN  IF class_parts # <<>>
             THEN file_path \o SEP \o Join(class_parts, <<".">>) \o SEP \o name
             ELSE file_path \o SEP \o name

(***************************************************************************)
(* parse_junit_xml.  A structured report file is                           *)
(*   [exists, wellformed, cases], a test case [classname, name, children]  *)
(* with children the set of its failure / error / skipped child elements.  *)
(***************************************************************************)
CaseOutcome(tc) ==
    IF "failure" \in tc.children THEN "failed"
    ELSE IF "error" \in tc.children THEN "errors"
    ELSE IF "skipped" \in tc.children THEN "skipped"
    ELSE "passed"

RECURSIVE JunitCases(_, _)
JunitCases(cases, acc) ==
    IF cases = <<>> THEN acc
    ELSE LET tc == Head(cases)
             node_id == _make_node_id(tc.classname, tc.name)
         IN  JunitCases(Tail(cases),
                        [acc EXCEPT ![CaseOutcome(tc)] = Append(@, node_id)])

parse_junit_xml(xml) ==
    IF ~xml.exists THEN EmptyReport
    ELSE IF ~xml.wellformed THEN EmptyReport
    ELSE JunitCases(xml.cases, EmptyReport)

(***************************************************************************)
(* parse_pytest_log.  A raw log is [exists, lines].                        *)
(***************************************************************************)
M_PASSED == <<" ", "P", "A", "S", "S", "E", "D">>
M_FAILED == <<" ", "F", "A", "I", "L", "E", "D">>
M_ERROR == <<" ", "E", "R", "R", "O", "R">>
M_SKIPPED == <<" ", "S", "K", "I", "P", "P", "E", "D">>

\* the list a log line goes to and the node id it yields; "" when the line
\* is not accepted
LogLineKey(line) ==
    IF Contains(line, M_PASSED) THEN "passed"
    ELSE IF Contains(line, M_FAILED) THEN "failed"
    ELSE IF Contains(line, M_ERROR) THEN "errors"
    ELSE IF Contains(line, M_SKIPPED) THEN "skipped"
    ELSE ""

LogLineMarker(key) ==
    CASE key = "passed" -> M_PASSED
      [] key = "failed" -> M_FAILED
      [] key = "errors" -> M_ERROR
      [] key = "skipped" -> M_SKIPPED

RECURSIVE LogLines(_, _)
LogLines(lines, acc) ==
    IF lines = <<>> THEN acc
    ELSE LET line == Strip(Head(lines))
             key == LogLineKey(line)
         IN  IF key = "" THEN LogLines(Tail(lines), acc)
             ELSE LET node_id == Strip(BeforeFirst(line, LogLineMarker(key)))
                  IN  IF Contains(node_id, SEP)
                      THEN LogLines(Tail(lines), [acc EXCEPT ![key] = Append(@, node_id)])
                      ELSE LogLines(Tail(lines), acc)

parse_pytest_log(log) ==
    IF ~log.exists THEN EmptyReport ELSE LogLines(log.lines, EmptyReport)

(***************************************************************************)
(* run_pytest_local / run_pytest_docker, the part after the runner ended:  *)
(* ex is one execution of the runner,                                      *)
(*   [timed_out, xml, stdout]                                              *)
(* xml being the file at the junit path when the run is over and stdout    *)
(* the lines the harness writes to the log file.                           *)
(***************************************************************************)
TIMEOUT == <<"T", "I", "M", "E", "O", "U", "T">>

TimeoutReport == [passed |-> <<>>, failed |-> <<>>, errors |-> <<TIMEOUT>>, skipped |-> <<>>]

ParseRunnerOutput(ex) ==
    LET results == parse_junit_xml(ex.xml)
    IN  IF IsEmptyReport(results)
        THEN parse_pytest_log([exists |-> TRUE, lines |-> ex.stdout])
        ELSE results

run_pytest_local(test_targets, ex) ==
    IF test_targets = <<>> THEN EmptyReport
    ELSE IF ex.timed_out THEN TimeoutReport
    ELSE ParseRunnerOutput(ex)

run_pytest_docker(test_targets, ex) ==
    IF test_targets = <<>> THEN EmptyReport
    ELSE IF ex.timed_out THEN TimeoutReport
    ELSE ParseRunnerOutput(ex)

(***************************************************************************)
(* Step 5 of process_instance: the classification.                         *)
(***************************************************************************)
phase1_failed_set(p1) == Range(p1.failed \o p1.errors)

\* BaseFailToPass with phase1_results["errors"] left out of phase1_failed_set
BaseFailToPass_FailedOnly(p1, p2) == Range(p1.failed) \cap Range(p2.passed)

\* sorted(phase1_failed_set & phase2_passed_set), as a set
BaseFailToPass(p1, p2) == phase1_failed_set(p1) \cap Range(p2.passed)

\* ModulePrefix without the ".py" put in for a module id that lacks it
ModulePrefix_NoPy(err_id) == err_id \o SEP

\* err_id + "::" if err_id.endswith(".py") else err_id + ".py::"
ModulePrefix(err_id) ==
    IF EndsWith(err_id, DOT_PY) THEN err_id \o SEP ELSE err_id \o DOT_PY \o SEP

\* "::" not in err_id and err_id not in phase2_passed_set
IsModuleError(err_id, phase2_passed_set) ==
    ~Contains(err_id, SEP) /\ err_id \notin phase2_passed_set

\* the loop over phase1_results["errors"], in list order
RECURSIVE ResolveModuleErrors(_, _, _, _)
ResolveModuleErrors(errs, phase2_passed_set, f2p_set, module_errors_resolved) ==
    IF errs = <<>>
    THEN [f2p_set |-> f2p_set, module_errors_resolved |-> module_errors_resolved]
    ELSE LET err_id == Head(errs)
             added == IF IsModuleError(err_id, phase2_passed_set)
                      THEN {p2 \in phase2_passed_set :
                               StartsWith(p2, ModulePrefix(err_id)) /\ p2 \notin f2p_set}
                      ELSE {}
         IN  ResolveModuleErrors(
                 Tail(errs), phase2_passed_set, f2p_set \cup added,
                 IF added # {} THEN module_errors_resolved \cup {err_id}
                               ELSE module_errors_resolved)

\* PassToPass without the intersection with the phase-2 passes
PassToPass_Phase1Only(p1, p2) == Range(p1.passed)

PassToPass(p1, p2) == Range(p1.passed) \cap Range(p2.passed)

Regressions(p1, p2) == Range(p1.passed) \ Range(p2.passed)

Classify(p1, p2) ==
    LET r == ResolveModuleErrors(p1.errors, Range(p2.passed), BaseFailToPass(p1, p2), {})
    IN  [FAIL_TO_PASS |-> Sorted(r.f2p_set),
         PASS_TO_PASS |-> Sorted(PassToPass(p1, p2)),
         both_failed |->
             Sorted((phase1_failed_set(p1) \ Range(p2.passed)) \ r.module_errors_resolved),
         regressions |-> Sorted(Regressions(p1, p2))]

(***************************************************************************)
(* The working tree of one instance, as the file system and the store's    *)
(* bookkeeping hold it:                                                    *)
(*   dir      the directory exists                                         *)
(*   reg      the store has a worktree entry for it                        *)
(*   locked   it holds files a plain recursive remove cannot delete        *)
(*   complete the checkout ran to its end                                  *)
(*   patches  the patches applied to it                                    *)
(*   tmp_patch  the scratch files .tmp_<label>.patch lying in it           *)
(***************************************************************************)
NoTree ==
    [dir |-> FALSE, reg |-> FALSE, locked |-> FALSE, complete |-> FALSE, patches |-> {},
     tmp_patch |-> {}]

FreshTree ==
    [dir |-> TRUE, reg |-> TRUE, locked |-> FALSE, complete |-> TRUE, patches |-> {},
     tmp_patch |-> {}]

\* a checkout the timeout of run_cmd killed half way
PartialTree ==
    [dir |-> TRUE, reg |-> TRUE, locked |-> FALSE, complete |-> FALSE, patches |-> {},
     tmp_patch |-> {}]

\* git worktree prune: drops the entry of a tree whose directory is gone
Prune(tree) == IF tree.dir THEN tree ELSE [tree EXCEPT !.reg = FALSE]

\* _force_remove_dir(path): shutil.rmtree deletes a tree that holds no
\* undeletable files; for one that does, removed says whether chmod -R +
\* rmtree or sudo rm -rf (exit status not looked at) got rid of it
_force_remove_dir(tree, removed) ==
    IF ~tree.dir THEN tree
    ELSE IF ~tree.locked \/ removed THEN [NoTree EXCEPT !.reg = tree.reg]
    ELSE tree

\* the ways git worktree remove --force can end on a tree
RemoveOutcomes(tree) ==
    {"raised"} \cup (IF tree.dir /\ tree.reg /\ ~tree.locked THEN {"ok"} ELSE {"nonzero"})

\* git worktree remove --force <path>, run through run_cmd without check:
\*   ok       exit 0, directory and entry gone
\*   nonzero  exit # 0: the entry is dropped, undeletable files stay
\*   raised   run_cmd raised (the 60 s timeout, git not runnable)
GitWorktreeRemove(tree, o) ==
    CASE o = "ok" -> NoTree
      [] o = "nonzero" -> [tree EXCEPT !.reg = FALSE]
      [] o = "raised" -> tree

\* cleanup_worktree(bare_path, worktree_path); removed is the outcome of
\* _force_remove_dir, which runs only when run_cmd raised
cleanup_worktree(tree, o, removed) ==
    LET after == IF o = "raised"
                 THEN _force_remove_dir(tree, removed)
                 ELSE GitWorktreeRemove(tree, o)
    IN  Prune(after)

\* the call of cleanup_worktree and the commands it runs, as events
CleanupCommands(o) ==
    <<"cleanup_worktree", "git worktree remove -> " \o o>> \o
    (IF o = "raised" THEN <<"_force_remove_dir">> ELSE <<>>) \o
    <<"git worktree prune">>

(***************************************************************************)
(* apply_patch(repo_path, patch_text, label).  o is what the write of the  *)
(* scratch file and the two git apply invocations do:                      *)
(*   write_error       open(patch_file, "w") raises, no file               *)
(*   write_partial     fh.write raises, the file exists                    *)
(*   strict_ok         git apply exits 0                                   *)
(*   strict_timeout    git apply exceeds the 60 s of run_cmd               *)
(*   threeway_ok       git apply exits # 0, git apply --3way exits 0       *)
(*   threeway_timeout  git apply exits # 0, git apply --3way times out     *)
(*   both_fail         both exit # 0                                       *)
(* The value is [ret, tree, cmds]: ret is "True", "False" or the exception *)
(* that leaves apply_patch, cmds the git commands run with how they ended. *)
(***************************************************************************)
ApplyOutcomes ==
    {"strict_ok", "threeway_ok", "both_fail", "strict_timeout", "threeway_timeout",
     "write_error", "write_partial"}

\* not patch_text or not patch_text.strip(), without the strip
IsEmptyPatch_NoStrip(patch_text) == patch_text = <<>>

\* not patch_text or not patch_text.strip()
IsEmptyPatch(patch_text) == patch_text = <<>> \/ Strip(patch_text) = <<>>

\* with open(patch_file, "w") as fh: fh.write(patch_text)
WritePatchFile(tree, label, o) ==
    IF o = "write_error" THEN tree
    ELSE [tree EXCEPT !.tmp_patch = @ \cup {label}]

\* the finally clause left out
RemovePatchFile_Never(tree, label) == tree

\* finally: if os.path.exists(patch_file): os.remove(patch_file)
RemovePatchFile(tree, label) ==
    IF label \in tree.tmp_patch
    THEN [tree EXCEPT !.tmp_patch = @ \ {label}]
    ELSE tree

\* run_cmd(["git", "apply", ...], timeout=60) as an event
GitApply(flags, label, how) == ("git apply " \o flags) \o (label \o (" -> " \o how))

\* the try block of apply_patch
ApplyPatchBody(tree, label, o) ==
    LET written == WritePatchFile(tree, label, o)
        applied == [written EXCEPT !.patches = @ \cup {label}]
    IN  CASE o \in {"write_error", "write_partial"} ->
                [ret |-> "OSError", tree |-> written, cmds |-> <<>>]
          [] o = "strict_ok" ->
                [ret |-> "True", tree |-> applied,
                 cmds |-> <<GitApply("", label, "0")>>]
          [] o = "strict_timeout" ->
                [ret |-> "TimeoutExpired", tree |-> written,
                 cmds |-> <<GitApply("", label, "timeout")>>]
          [] o = "threeway_ok" ->
                [ret |-> "True", tree |-> applied,
                 cmds |-> <<GitApply("", label, "1"), GitApply("--3way ", label, "0")>>]
          [] o = "threeway_timeout" ->
                [ret |-> "TimeoutExpired", tree |-> written,
                 cmds |-> <<GitApply("", label, "1"), GitApply("--3way ", label, "timeout")>>]
          [] o = "both_fail" ->
                [ret |-> "False", tree |-> written,
                 cmds |-> <<GitApply("", label, "1"), GitApply("--3way ", label, "1")>>]

apply_patch(tree, patch_text, label, o) ==
    IF IsEmptyPatch(patch_text)
    THEN [ret |-> "True", tree |-> tree, cmds |-> <<>>]
    ELSE LET body == ApplyPatchBody(tree, label, o)
         IN  [body EXCEPT !.tree = RemovePatchFile(@, label)]

(***************************************************************************)
(* determine_test_targets(instance)                                        *)
(***************************************************************************)
determine_test_targets(inst) ==
    IF inst.all_test_ids # <<>> THEN inst.all_test_ids
    ELSE IF inst.affected_test_files # <<>> THEN inst.affected_test_files
    ELSE LET withName == SelectSeq(inst.test_files, LAMBDA tf : "filename" \in DOMAIN tf)
         IN  [i \in 1..Len(withName) |-> withName[i].filename]

(***************************************************************************)
(* The inputs the model draws from.                                        *)
(***************************************************************************)
\* "pkg/mod", "pkg.mod", "pkg/mod.py"
PKG_MOD == <<"p", "k", "g", "/", "m", "o", "d">>
PKG_DOT_MOD == <<"p", "k", "g", ".", "m", "o", "d">>
PKG_MOD_PY == PKG_MOD \o DOT_PY
TEST_X == TEST_ \o <<"x">>
TEST_Y == TEST_ \o <<"y">>
\* "pkg/mod.py::test_x", "pkg/mod.py::test_y", "a::f"
ID_X == PKG_MOD_PY \o SEP \o TEST_X
ID_Y == PKG_MOD_PY \o SEP \o TEST_Y
A_F == <<"a">> \o SEP \o <<"f">>

TC(classname, name, children) ==
    [classname |-> classname, name |-> name, children |-> children]

\* the test cases a structured report of phase 1 is made of
Phase1Cases ==
    { TC(<<>>, PKG_DOT_MOD, {"error"}),          \* collection error, "pkg/mod.py"
      TC(<<>>, PKG_MOD, {"error"}),              \* collection error, "pkg/mod"
      TC(PKG_DOT_MOD, TEST_X, {"failure"}),
      TC(PKG_DOT_MOD, TEST_X, {}),
      TC(PKG_DOT_MOD, TEST_Y, {"error", "skipped"}),
      TC(PKG_DOT_MOD, TEST_Y, {}),
      TC(<<>>, A_F, {"failure"}) }

\* the test cases a structured report of phase 2 is made of
Phase2Cases ==
    { TC(PKG_DOT_MOD, TEST_X, {}),
      TC(PKG_DOT_MOD, TEST_Y, {}),
      TC(<<>>, A_F, {}),
      TC(PKG_DOT_MOD, TEST_X, {"failure"}),
      TC(PKG_DOT_MOD, TEST_Y, {"skipped"}),
      TC(<<>>, PKG_DOT_MOD, {}) }

\* the lines of a verbose log
LogLineUniverse ==
    { A_F \o M_PASSED,
      <<" ">> \o A_F \o M_FAILED \o <<" ", "[", "5", "0", "%", "]">>,
      A_F \o M_ERROR,
      PKG_MOD_PY \o M_FAILED }

XmlFile(cases) == [exists |-> TRUE, wellformed |-> TRUE, cases |-> cases]
NoXmlFile == [exists |-> FALSE, wellformed |-> FALSE, cases |-> <<>>]
BadXmlFile == [exists |-> TRUE, wellformed |-> FALSE, cases |-> <<>>]

Exec(timed_out, xml, stdout, log_written, root_files) ==
    [timed_out |-> timed_out, xml |-> xml, stdout |-> stdout,
     log_written |-> log_written, root_files |-> root_files]

\* the executions of the test runner over the given cases and lines: a run
\* that hits the timeout, runs that leave a structured report, runs that
\* leave none (or a malformed one) and a raw log, and a run whose log
\* cannot be written
Execs(cases, n, lines, m) ==
    {Exec(TRUE, NoXmlFile, <<>>, TRUE, FALSE),
     Exec(FALSE, NoXmlFile, <<>>, FALSE, FALSE)}
    \cup {Exec(FALSE, XmlFile(cs), <<>>, TRUE, rf) :
            cs \in SeqsUpTo(cases, n), rf \in BOOLEAN}
    \cup {Exec(FALSE, x, ls, TRUE, FALSE) :
            x \in {NoXmlFile, BadXmlFile}, ls \in SeqsUpTo(lines, m)}

\* "diff", " "
DIFF == <<"d", "i", "f", "f">>
BLANK == <<" ">>

Inst(id, test_patch, source_patch, all_test_ids, affected_test_files, test_files) ==
    [instance_id |-> id, version |-> "0.5.3", base_commit |-> "abc",
     test_patch |-> test_patch, source_patch |-> source_patch,
     all_test_ids |-> all_test_ids, affected_test_files |-> affected_test_files,
     test_files |-> test_files]

\* the dataset, in file order
Dataset ==
    << Inst("i1", DIFF, DIFF, <<ID_X>>, <<>>, <<>>),
       Inst("i2", <<>>, BLANK, <<>>, <<PKG_MOD_PY>>, <<>>),
       Inst("i3", DIFF, DIFF, <<>>, <<>>, <<[status |-> "added"]>>) >>

\* the elements of q at the positions I, in q's order
RECURSIVE Pick(_, _, _)
Pick(q, I, i) ==
    IF i > Len(q) THEN <<>>
    ELSE (IF i \in I THEN <<q[i]>> ELSE <<>>) \o Pick(q, I, i + 1)

\* filter_instances: the selections of at most n instances, in dataset order
Selections(n) ==
    {Pick(Dataset, I, 1) :
        I \in {J \in SUBSET (1..Len(Dataset)) : Cardinality(J) \in 1..n}}

(***************************************************************************)
(* The state of one run of main.                                           *)
(***************************************************************************)
VARIABLES
    instances,       \* the selected instances, main's list
    containers,      \* the phases of this instance's run whose container still runs
    keep_worktrees,  \* args.keep_worktrees
    use_docker,      \* args.docker
    queue,           \* the selected instances main has not started yet
    instance,        \* the instance being processed
    pc,              \* where main / process_instance stands
    result,          \* the result dict of the instance being processed
    store,           \* the bare clone: "absent", "partial" or "ok"
    wt,              \* the working tree of the instance being processed
    events,          \* the commands and calls of this instance's run, in order
    escaped,         \* the exception that left process_instance, or "none"
    all_results,     \* the results main has saved, in order
    junit,           \* the files of an earlier run the phases found at their junit paths
    exit_code,       \* the exit status of main, "none" while it runs
    pipelines        \* where each of several concurrent calls of ensure_bare_clone stands

vars ==
    << instances, containers, keep_worktrees, use_docker, queue, instance, pc, result, store, wt,
       events, escaped, all_results, junit, exit_code, pipelines >>

\* instances one run of main processes
MaxInstances == 2

NoInstance == Inst("", <<>>, <<>>, <<>>, <<>>, <<>>)

\* the result dict process_instance starts from
InitialResult(inst) ==
    [instance_id |-> inst.instance_id,
     version |-> inst.version,
     base_commit |-> inst.base_commit,
     phase1 |-> EmptyReport,
     phase2 |-> EmptyReport,
     FAIL_TO_PASS |-> <<>>,
     PASS_TO_PASS |-> <<>>,
     status |-> "error",
     error_message |-> "",
     timestamps |-> {"start"}]

\* main's result for an exception, without a message for the catch-all
FallbackResult_NoMessage(inst, exc) ==
    [instance_id |-> inst.instance_id,
     version |-> inst.version,
     base_commit |-> inst.base_commit,
     phase1 |-> EmptyReport,
     phase2 |-> EmptyReport,
     FAIL_TO_PASS |-> <<>>,
     PASS_TO_PASS |-> <<>>,
     status |-> IF exc = "TimeoutExpired" THEN "timeout" ELSE "error",
     error_message |-> IF exc = "TimeoutExpired"
                       THEN "Overall instance processing timed out"
                       ELSE ""]

\* the result main builds when process_instance raises
FallbackResult(inst, exc) ==
    [instance_id |-> inst.instance_id,
     version |-> inst.version,
     base_commit |-> inst.base_commit,
     phase1 |-> EmptyReport,
     phase2 |-> EmptyReport,
     FAIL_TO_PASS |-> <<>>,
     PASS_TO_PASS |-> <<>>,
     status |-> IF exc = "TimeoutExpired" THEN "timeout" ELSE "error",
     error_message |-> IF exc = "TimeoutExpired"
                       THEN "Overall instance processing timed out"
                       ELSE exc]

\* the file at a junit path of the instance's output directory when a
\* phase starts: none, or the report an earlier run of the harness on the
\* instance left there, which nothing in process_instance removes
NoReports == [phase1 |-> NoXmlFile, phase2 |-> NoXmlFile]

StaleXmlFile == XmlFile(<<TC(PKG_DOT_MOD, TEST_Y, {})>>)

StaleReports == {NoXmlFile, StaleXmlFile}

\* the file at the junit path when the runner is over: the one the runner
\* wrote (pytest --junit-xml, or the file moved out of the working tree),
\* or the one that was there before when it wrote none
JunitAfter(old, written) == IF written.exists THEN written ELSE old

\* what is left of the earlier run's file then
StillThere(old, written) == IF written.exists THEN NoXmlFile ELSE old

\* parse_junit_xml on the file, as its log tells: the file is not found, is
\* not parsed, or is parsed, with or without test cases
JunitShape(file) ==
    IF ~file.exists THEN "not found"
    ELSE IF ~file.wellformed THEN "parse error"
    ELSE IF file.cases = <<>> THEN "no testcase"
    ELSE "testcases"

\* the trees a previous run of the harness can have left at the instance's path
StaleTrees ==
    { NoTree,
      [FreshTree EXCEPT !.patches = {"test_patch", "source_patch"}],
      [FreshTree EXCEPT !.patches = {"test_patch", "source_patch"}, !.locked = TRUE],
      [FreshTree EXCEPT !.patches = {"test_patch", "source_patch"}, !.locked = TRUE,
                        !.reg = FALSE] }

Init ==
    /\ keep_worktrees \in BOOLEAN
    /\ use_docker \in BOOLEAN
    /\ instances \in Selections(MaxInstances) \cup {<<>>}
    /\ containers = {}
    /\ queue = instances
    /\ instance = NoInstance
    /\ pc = "main"
    /\ result = InitialResult(NoInstance)
    /\ store \in {"absent", "ok"}
    /\ wt = NoTree
    /\ events = <<>>
    /\ escaped = "none"
    /\ all_results = <<>>
    /\ junit = NoReports
    /\ exit_code = "none"
    /\ pipelines = <<>>

\* process_instance returns r
Return(r, msg) ==
    /\ result' = [r EXCEPT !.error_message = msg, !.timestamps = @ \cup {"end"}]
    /\ pc' = "save"
    /\ escaped' = "none"

\* exc leaves process_instance and main's handler builds the result
Raise(exc) ==
    /\ result' = FallbackResult(instance, exc)
    /\ pc' = "save"
    /\ escaped' = exc

\* main: the head of the loop over the instances
StartInstance ==
    /\ pc = "main"
    /\ queue # <<>>
    /\ instance' = Head(queue)
    /\ queue' = Tail(queue)
    /\ result' = InitialResult(Head(queue))
    /\ wt' \in StaleTrees
    /\ events' = <<>>
    /\ escaped' = "none"
    /\ pc' = "step0"
    /\ containers' = {}
    /\ junit' = NoReports
    /\ UNCHANGED <<pipelines, exit_code>>
    /\ UNCHANGED <<instances, keep_worktrees, use_docker, store, all_results>>

\* git fetch --all in the bare clone: it can fail or time out, and does in
\* what a failed clone left behind
FetchOutcomes(st) == IF st = "ok" THEN {"0", "failed"} ELSE {"failed"}

\* Step 0 with a refresh whose failure ends the run
EnsureBareClone_FetchFatal ==
    /\ pc = "step0"
    /\ \/ /\ store # "absent"
          /\ \E o \in FetchOutcomes(store) :
                /\ events' = Append(events, "git fetch -> " \o o)
                /\ IF o = "0"
                   THEN pc' = "step1" /\ UNCHANGED <<result, escaped>>
                   ELSE Return(result, "Failed to create/update bare clone")
          /\ UNCHANGED store
       \/ /\ store = "absent"
          /\ store' = "ok"
          /\ events' = Append(events, "git clone -> 0")
          /\ pc' = "step1"
          /\ UNCHANGED <<result, escaped>>
    /\ UNCHANGED <<pipelines, exit_code, junit>>
    /\ UNCHANGED <<instances, containers, keep_worktrees, use_docker, queue, instance, wt,
                   all_results>>

\* Step 0: ensure_bare_clone
EnsureBareClone ==
    /\ pc = "step0"
    /\ \/ /\ store # "absent"
          /\ \E o \in FetchOutcomes(store) : events' = Append(events, "git fetch -> " \o o)
          /\ pc' = "step1"
          /\ UNCHANGED <<store, result, escaped>>
       \/ /\ store = "absent"
          /\ \/ /\ store' = "ok"
                /\ events' = Append(events, "git clone -> 0")
                /\ pc' = "step1"
                /\ UNCHANGED <<result, escaped>>
             \/ /\ store' \in {"absent", "partial"}
                /\ events' = Append(events, "git clone -> failed")
                /\ Return(result, "Failed to create/update bare clone")
    /\ UNCHANGED <<pipelines, exit_code, junit>>
    /\ UNCHANGED <<instances, containers, keep_worktrees, use_docker, queue, instance, wt,
                   all_results>>

\* setup_worktree up to the removal of a stale tree
RemoveStale(tree, o, removed) ==
    IF Prune(tree).dir
    THEN Prune(_force_remove_dir(GitWorktreeRemove(Prune(tree), o), removed))
    ELSE Prune(tree)

\* the commands of setup_worktree before git worktree add
SetupCommands(tree) ==
    <<"git worktree prune">> \o
    (IF tree.dir THEN <<"git worktree remove", "git worktree prune">> ELSE <<>>)

\* Step 1 taking over the tree an earlier run left at the path
SetupWorktree_Reuse ==
    /\ pc = "step1"
    /\ store = "ok"
    /\ wt' = IF wt.dir /\ wt.complete THEN wt ELSE FreshTree
    /\ events' = events \o <<"git worktree prune", "git worktree add -> 0">>
    /\ pc' = "step2"
    /\ UNCHANGED <<result, escaped>>
    /\ UNCHANGED <<pipelines, exit_code, junit>>
    /\ UNCHANGED <<instances, containers, keep_worktrees, use_docker, queue, instance, store,
                   all_results>>

\* Step 1: setup_worktree
SetupWorktree ==
    /\ pc = "step1"
    /\ \E o \in RemoveOutcomes(Prune(wt)), removed \in BOOLEAN :
         LET cleared == RemoveStale(wt, o, removed)
             before == events \o SetupCommands(wt)
         IN  \/ /\ store = "ok"
                /\ ~cleared.dir
                /\ wt' = FreshTree
                /\ events' = Append(before, "git worktree add -> 0")
                /\ pc' = "step2"
                /\ UNCHANGED <<result, escaped>>
             \/ /\ cleared.dir
                /\ wt' = cleared
                /\ events' = Append(before, "git worktree add -> already exists")
                /\ Return(result, "Failed to setup worktree")
             \/ /\ ~cleared.dir
                /\ \/ /\ wt' = cleared
                      /\ events' = Append(before, "git worktree add -> failed")
                   \/ /\ wt' = PartialTree
                      /\ events' = Append(before, "git worktree add -> timeout")
                /\ Return(result, "Failed to setup worktree")
    /\ UNCHANGED <<pipelines, exit_code, junit>>
    /\ UNCHANGED <<instances, containers, keep_worktrees, use_docker, queue, instance, store,
                   all_results>>

\* if not keep_worktrees: cleanup_worktree(bare_path, worktree_path),
\* after the commands cmds
Cleanup(tree, cmds) ==
    IF keep_worktrees
    THEN /\ wt' = tree
         /\ events' = events \o cmds
    ELSE \E o \in RemoveOutcomes(tree), removed \in BOOLEAN :
            /\ wt' = cleanup_worktree(tree, o, removed)
            /\ events' = events \o cmds \o CleanupCommands(o)

\* Step 2: apply the test patch
ApplyTestPatch ==
    /\ pc = "step2"
    /\ \E o \in ApplyOutcomes :
         LET r == apply_patch(wt, instance.test_patch, "test_patch", o)
         IN  \/ /\ r.ret = "True"
                /\ wt' = r.tree
                /\ events' = events \o r.cmds
                /\ pc' = "step3"
                /\ UNCHANGED <<result, escaped>>
             \/ /\ r.ret = "False"
                /\ Cleanup(r.tree, r.cmds)
                /\ Return(result, "Failed to apply test_patch")
             \/ /\ r.ret \notin {"True", "False"}
                /\ wt' = r.tree
                /\ events' = events \o r.cmds
                /\ Raise(r.ret)
    /\ UNCHANGED <<pipelines, exit_code, junit>>
    /\ UNCHANGED <<instances, containers, keep_worktrees, use_docker, queue, instance, store,
                   all_results>>

\* Step 3: determine the test targets
DetermineTargets ==
    /\ pc = "step3"
    /\ \/ /\ determine_test_targets(instance) = <<>>
          /\ Cleanup(wt, <<>>)
          /\ Return(result, "No test targets found for this instance")
       \/ /\ determine_test_targets(instance) # <<>>
          /\ pc' = "phase1"
          /\ UNCHANGED <<result, escaped, wt, events>>
    /\ UNCHANGED <<pipelines, exit_code, junit>>
    /\ UNCHANGED <<instances, containers, keep_worktrees, use_docker, queue, instance, store,
                   all_results>>

\* run_cmd on subprocess.TimeoutExpired: subprocess.run has killed the child
\* it started, pytest or the docker run client, and nothing else; the
\* container the client started goes on until its tests end by themselves
StillRunning(docker, timed_out) ==
    IF docker /\ timed_out THEN BOOLEAN ELSE {FALSE}

\* the parser calls of the runner functions: none without test targets or
\* after a timeout, and otherwise parse_junit_xml, followed by
\* parse_pytest_log when the parsed structured report has nothing in any
\* of its lists
ParserCalls(phase, test_targets, ex) ==
    IF test_targets = <<>> \/ ex.timed_out THEN <<>>
    ELSE <<("parse_junit_xml " \o phase) \o (" -> " \o JunitShape(ex.xml))>> \o
         (IF IsEmptyReport(parse_junit_xml(ex.xml)) THEN <<"parse_pytest_log " \o phase>>
          ELSE <<>>)

\* one phase of process_instance: the call of run_pytest_docker or
\* run_pytest_local on one execution ex of the runner
RunPhase(phase, next, ex) ==
    \E old \in StaleReports :
    LET test_targets == determine_test_targets(instance)
        over == [ex EXCEPT !.xml = JunitAfter(old, ex.xml)]
        report == IF use_docker
                  THEN run_pytest_docker(test_targets, over)
                  ELSE run_pytest_local(test_targets, over)
    IN  /\ wt' = IF use_docker /\ ex.root_files THEN [wt EXCEPT !.locked = TRUE] ELSE wt
        /\ junit' = [junit EXCEPT ![phase] = StillThere(old, ex.xml)]
        /\ \E still \in StillRunning(use_docker, ex.timed_out) :
              containers' = IF still THEN containers \cup {phase} ELSE containers
        /\ events' = Append(events, "pytest " \o phase \o
                                     (IF ex.timed_out THEN " -> timeout" ELSE " -> exit"))
                      \o (IF ex.log_written THEN ParserCalls(phase, test_targets, over)
                          ELSE <<>>)
        /\ \/ /\ ex.timed_out \/ ex.log_written
              /\ result' = [result EXCEPT
                               ![phase] = report,
                               !.timestamps = @ \cup {phase \o "_start", phase \o "_end"}]
              /\ pc' = next
              /\ UNCHANGED escaped
           \/ /\ ~ex.timed_out /\ ~ex.log_written
              /\ Raise("OSError")
        /\ UNCHANGED <<pipelines, exit_code>>
        /\ UNCHANGED <<instances, keep_worktrees, use_docker, queue, instance, store,
                       all_results>>

\* Phase 1: the tests with the test patch only
RunPhase1(execs) ==
    /\ pc = "phase1"
    /\ \E ex \in execs : RunPhase("phase1", "step4", ex)

\* Step 4: apply the source patch
ApplySourcePatch ==
    /\ pc = "step4"
    /\ \E o \in ApplyOutcomes :
         LET r == apply_patch(wt, instance.source_patch, "source_patch", o)
         IN  \/ /\ r.ret = "True"
                /\ wt' = r.tree
                /\ events' = events \o r.cmds
                /\ pc' = "phase2"
                /\ UNCHANGED <<result, escaped>>
             \/ /\ r.ret = "False"
                /\ Cleanup(r.tree, r.cmds)
                /\ Return([result EXCEPT !.status = "partial"],
                          "Failed to apply source patch")
             \/ /\ r.ret \notin {"True", "False"}
                /\ wt' = r.tree
                /\ events' = events \o r.cmds
                /\ Raise(r.ret)
    /\ UNCHANGED <<pipelines, exit_code, junit>>
    /\ UNCHANGED <<instances, containers, keep_worktrees, use_docker, queue, instance, store,
                   all_results>>

\* Phase 2: the tests with the test patch and the source patch
RunPhase2(execs) ==
    /\ pc = "phase2"
    /\ \E ex \in execs : RunPhase("phase2", "step5", ex)

\* Step 5: classify, clean up and return
ClassifyAndCleanup ==
    /\ pc = "step5"
    /\ LET c == Classify(result.phase1, result.phase2)
       IN  Return([result EXCEPT !.FAIL_TO_PASS = c.FAIL_TO_PASS,
                                 !.PASS_TO_PASS = c.PASS_TO_PASS,
                                 !.status = "success"]
                   @@ [regressions |-> c.regressions, both_failed |-> c.both_failed],
                  "")
    /\ Cleanup(wt, <<>>)
    /\ UNCHANGED <<pipelines, exit_code, junit>>
    /\ UNCHANGED <<instances, containers, keep_worktrees, use_docker, queue, instance, store,
                   all_results>>

\* main: save_result and all_results.append
SaveResult ==
    /\ pc = "save"
    /\ \/ /\ all_results' = Append(all_results, result)
          /\ pc' = "main"
          /\ UNCHANGED exit_code
       \/ \* os.makedirs, open or json.dump raises: nothing in main catches it
          \* and the interpreter ends with the traceback and status 1
          /\ pc' = "crashed"
          /\ exit_code' = 1
          /\ UNCHANGED all_results
    /\ UNCHANGED <<pipelines, junit>>
    /\ UNCHANGED <<instances, containers, keep_worktrees, use_docker, queue, instance, result,
                   store, wt, events, escaped>>

\* main: filter_instances found no instance for the ids or the categories
\* asked for and raised ValueError
SelectionFails ==
    /\ pc = "main"
    /\ instances = <<>>
    /\ pc' = "exit"
    /\ exit_code' = 1
    /\ UNCHANGED <<pipelines, junit>>
    /\ UNCHANGED <<instances, containers, keep_worktrees, use_docker, queue, instance, result,
                   store, wt, events, escaped, all_results>>

\* the instances that did not complete successfully
error_count(results) ==
    Cardinality({i \in 1..Len(results) : results[i].status # "success"})

\* main: the loop is over, the summary is printed and main exits
Finish ==
    /\ pc = "main"
    /\ instances # <<>>
    /\ queue = <<>>
    /\ pc' = "exit"
    /\ exit_code' = IF error_count(all_results) # 0 THEN 1 ELSE 0
    /\ UNCHANGED <<pipelines, junit>>
    /\ UNCHANGED <<instances, containers, keep_worktrees, use_docker, queue, instance, result,
                   store, wt, events, escaped, all_results>>

\* the executions of the runner the whole-pipeline specification draws from
PipelineExecs ==
    Execs({TC(PKG_DOT_MOD, TEST_X, {}), TC(PKG_DOT_MOD, TEST_X, {"failure"})}, 1, {}, 0)

Next ==
    \/ SelectionFails
    \/ StartInstance
    \/ EnsureBareClone
    \/ SetupWorktree
    \/ ApplyTestPatch
    \/ DetermineTargets
    \/ RunPhase1(PipelineExecs)
    \/ ApplySourcePatch
    \/ RunPhase2(PipelineExecs)
    \/ ClassifyAndCleanup
    \/ SaveResult
    \/ Finish

Spec == Init /\ [][Next]_vars

(***************************************************************************)
(* The classification on its own: process_instance of the first instance   *)
(* of the dataset from the start of phase 1 on, store, working tree and    *)
(* test patch in place, over every report the two phases can produce from  *)
(* at most MaxCases test cases or MaxLines log lines.                      *)
(***************************************************************************)
Phase1Execs == Execs(Phase1Cases, MaxCases, LogLineUniverse, MaxLines)

Phase2Execs == Execs(Phase2Cases, MaxCases, LogLineUniverse, MaxLines)

InitClassify ==
    /\ instances = <<Dataset[1]>>
    /\ containers = {}
    /\ keep_worktrees = TRUE
    /\ use_docker = FALSE
    /\ queue = <<>>
    /\ instance = Dataset[1]
    /\ pc = "phase1"
    /\ result = InitialResult(Dataset[1])
    /\ store = "ok"
    /\ wt = [FreshTree EXCEPT !.patches = {"test_patch"}]
    /\ events = <<"git fetch -> 0", "git worktree prune", "git worktree add -> 0",
                 GitApply("", "test_patch", "0")>>
    /\ escaped = "none"
    /\ all_results = <<>>
    /\ junit = NoReports
    /\ exit_code = "none"
    /\ pipelines = <<>>

NextClassify ==
    \/ RunPhase1(Phase1Execs)
    \/ ApplySourcePatch
    \/ RunPhase2(Phase2Execs)
    \/ ClassifyAndCleanup
    \/ SaveResult
    \/ Finish

SpecClassify == InitClassify /\ [][NextClassify]_vars

(***************************************************************************)
(* ensure_bare_clone on its own, called by several runs of the harness     *)
(* that were started on one work directory: each call is the test of       *)
(* os.path.isdir followed by one git command, and the calls interleave at  *)
(* the start and the end of the commands.                                  *)
(***************************************************************************)
\* concurrent runs of the harness on one work directory
MaxPipelines == 3

Pipelines == 1..MaxPipelines

InitStore ==
    /\ instances = <<>>
    /\ containers = {}
    /\ keep_worktrees = FALSE
    /\ use_docker = FALSE
    /\ queue = <<>>
    /\ instance = NoInstance
    /\ pc = "step0"
    /\ result = InitialResult(NoInstance)
    /\ store \in {"absent", "ok"}
    /\ wt = NoTree
    /\ events = <<>>
    /\ escaped = "none"
    /\ all_results = <<>>
    /\ junit = NoReports
    /\ exit_code = "none"
    /\ pipelines = [p \in Pipelines |-> "call"]

StoreFrame ==
    UNCHANGED <<instances, containers, keep_worktrees, use_docker, queue, instance, pc, result,
                wt, events, escaped, all_results, junit, exit_code>>

\* if os.path.isdir(bare_path)
IsDir(p) ==
    /\ pipelines[p] = "call"
    /\ pipelines' = [pipelines EXCEPT ![p] = IF store # "absent" THEN "fetch" ELSE "clone"]
    /\ UNCHANGED store
    /\ StoreFrame

\* run_cmd(["git", "fetch", "--all"], cwd=bare_path): git starts
StartFetch(p) ==
    /\ pipelines[p] = "fetch"
    /\ pipelines' = [pipelines EXCEPT ![p] = "fetching"]
    /\ UNCHANGED store
    /\ StoreFrame

\* git fetch ends, whatever its outcome, and ensure_bare_clone returns
EndFetch(p) ==
    /\ pipelines[p] = "fetching"
    /\ pipelines' = [pipelines EXCEPT ![p] = "returned"]
    /\ UNCHANGED store
    /\ StoreFrame

\* run_cmd(["git", "clone", "--bare", repo_url, bare_path], check=True): git
\* starts and creates the directory, or finds it there and exits non-zero
StartClone(p) ==
    /\ pipelines[p] = "clone"
    /\ \/ /\ store = "absent"
          /\ store' = "partial"
          /\ pipelines' = [pipelines EXCEPT ![p] = "cloning"]
       \/ /\ store # "absent"
          /\ UNCHANGED store
          /\ pipelines' = [pipelines EXCEPT ![p] = "raised"]
    /\ StoreFrame

\* git clone ends: the store is complete and ensure_bare_clone returns, or
\* the command failed or was killed at the timeout and the exception leaves
EndClone(p) ==
    /\ pipelines[p] = "cloning"
    /\ \/ /\ store' = "ok"
          /\ pipelines' = [pipelines EXCEPT ![p] = "returned"]
       \/ /\ store' \in {"absent", "partial"}
          /\ pipelines' = [pipelines EXCEPT ![p] = "raised"]
    /\ StoreFrame

NextStore ==
    \/ \E p \in Pipelines : IsDir(p)
    \/ \E p \in Pipelines : StartFetch(p)
    \/ \E p \in Pipelines : EndFetch(p)
    \/ \E p \in Pipelines : StartClone(p)
    \/ \E p \in Pipelines : EndClone(p)

SpecStore == InitStore /\ [][NextStore]_vars

(***************************************************************************)
(* Properties.                                                             *)
(***************************************************************************)
\* main has saved the result of the instance whose run events, wt and
\* escaped describe
Persisted == pc \in {"main", "exit"} /\ all_results # <<>>

LastResult == all_results[Len(all_results)]

\* the saved results that went through the classification
Successes == {r \in Range(all_results) : r.status = "success"}

\* the runner of the given phase hit its timeout in the current run
TimedOut(phase) == ("pytest " \o phase \o " -> timeout") \in Range(events)

\* the prefix the claims give a module id: e + "::", with ".py" put in
\* first when e does not end in ".py"
FinePrefix(e) == IF EndsWith(e, DOT_PY) THEN e \o SEP ELSE (e \o DOT_PY) \o SEP

\* a module-level id of phase1.errors that phase 2 did not pass
Coarse(r, e) ==
    /\ e \in Range(r.phase1.errors)
    /\ ~Contains(e, SEP)
    /\ e \notin Range(r.phase2.passed)

\* C1: no test identifier of a saved result is in both FAIL_TO_PASS and
\* PASS_TO_PASS, whatever reports the two phases produced.
C1_NoTestClassifiedBothWays ==
    \A r \in Range(all_results) :
        Range(r.FAIL_TO_PASS) \cap Range(r.PASS_TO_PASS) = {}

\* C2: when the test runner of phase 1 or phase 2 hit its timeout, the saved
\* result has status "timeout" and empty FAIL_TO_PASS and PASS_TO_PASS.  (No
\* exception leaves the pipeline: Raise turns every one into a result.)
C2_RunnerTimeoutGivesTimeoutStatus ==
    (Persisted /\ (TimedOut("phase1") \/ TimedOut("phase2"))) =>
        /\ LastResult.status = "timeout"
        /\ LastResult.FAIL_TO_PASS = <<>>
        /\ LastResult.PASS_TO_PASS = <<>>

\* this run created the working tree, wholly or partly
TreeCreated ==
    \/ "git worktree add -> 0" \in Range(events)
    \/ (wt.dir /\ ~wt.complete)

\* C3: without keep_worktrees, whenever process_instance is left after the
\* working tree was (even partly) created, cleanup_worktree has been called.
C3_CleanupOnEveryWayOut ==
    (pc = "save" /\ ~keep_worktrees /\ TreeCreated) =>
        "cleanup_worktree" \in Range(events)

\* C4: a failure to apply the fix patch after phase 1 gives status "partial"
\* with the phase-1 report kept, phase2 four empty lists and empty
\* FAIL_TO_PASS / PASS_TO_PASS; a failure of any step before phase 1 gives
\* status "error" with phase1 four empty lists.
C4_PartialAndErrorResults ==
    [][ /\ (pc = "step4" /\ pc' = "save") =>
              /\ result'.status = "partial"
              /\ result'.phase1 = result.phase1
              /\ result'.phase2 = EmptyReport
              /\ result'.FAIL_TO_PASS = <<>>
              /\ result'.PASS_TO_PASS = <<>>
        /\ (pc \in {"step0", "step1", "step2", "step3"} /\ pc' = "save") =>
              /\ result'.status = "error"
              /\ result'.phase1 = EmptyReport ]_vars

\* C5: every phase-2 pass that starts with the prefix of a module-level
\* phase-1 error (one without "::" that phase 2 did not pass) is in
\* FAIL_TO_PASS; phase1.errors = {"pkg/mod.py"} and phase2.passed =
\* {"pkg/mod.py::test_x", "pkg/mod.py::test_y"} give exactly those two.
C5_CoarseToFineResolution ==
    \A r \in Successes :
        /\ \A e \in Range(r.phase1.errors) :
              Coarse(r, e) =>
                 \A p \in Range(r.phase2.passed) :
                    StartsWith(p, FinePrefix(e)) => p \in Range(r.FAIL_TO_PASS)
        /\ (Range(r.phase1.errors) = {PKG_MOD_PY} /\ Range(r.phase2.passed) = {ID_X, ID_Y})
              => r.FAIL_TO_PASS = <<ID_X, ID_Y>>

\* C5's case: the module "pkg/mod.py" errored in phase 1 and its two tests
\* passed in phase 2
C5_Witness ==
    \E r \in Successes :
        /\ r.phase1.errors = <<PKG_MOD_PY>>
        /\ Range(r.phase2.passed) = {ID_X, ID_Y}
        /\ r.FAIL_TO_PASS = <<ID_X, ID_Y>>

\* the module-level phase-1 errors with a phase-2 pass under their prefix
ResolvedCoarse(r) ==
    {e \in Range(r.phase1.errors) :
        /\ Coarse(r, e)
        /\ \E p \in Range(r.phase2.passed) : StartsWith(p, FinePrefix(e))}

\* C6: a module-level phase-1 error with a phase-2 pass under its prefix is
\* not in both_failed, and both_failed is ((phase1.failed + phase1.errors)
\* - phase2.passed) without exactly those module-level errors.
C6_ResolvedCoarseNotBothFailed ==
    \A r \in Successes :
        Range(r.both_failed) =
            ((Range(r.phase1.failed \o r.phase1.errors) \ Range(r.phase2.passed))
                \ ResolvedCoarse(r))

PairwiseDisjoint(rep) ==
    \A k1, k2 \in {"passed", "failed", "errors", "skipped"} :
        k1 # k2 => Range(rep[k1]) \cap Range(rep[k2]) = {}

\* C7: in every report of a phase the lists passed, failed, errors and
\* skipped are pairwise disjoint.
C7_ReportListsDisjoint ==
    \A r \in Range(all_results) :
        PairwiseDisjoint(r.phase1) /\ PairwiseDisjoint(r.phase2)

\* C8: PASS_TO_PASS is phase1.passed /\ phase2.passed and regressions is
\* phase1.passed - phase2.passed, so the two partition phase1.passed.
C8_PassToPassAndRegressions ==
    \A r \in Successes :
        /\ Range(r.PASS_TO_PASS) = Range(r.phase1.passed) \cap Range(r.phase2.passed)
        /\ Range(r.regressions) = Range(r.phase1.passed) \ Range(r.phase2.passed)
        /\ Range(r.PASS_TO_PASS) \cap Range(r.regressions) = {}
        /\ Range(r.PASS_TO_PASS) \cup Range(r.regressions) = Range(r.phase1.passed)

\* C8's case: of two phase-1 passes one passes again and one does not
C8_Witness ==
    \E r \in Successes :
        /\ r.PASS_TO_PASS # <<>>
        /\ r.regressions # <<>>
        /\ Range(r.phase2.passed) \ Range(r.phase1.passed) # {}

\* C9: FAIL_TO_PASS holds all of (phase1.failed + phase1.errors) /\
\* phase2.passed, is within phase2.passed, and is exactly that intersection
\* when phase1.errors has no id without "::"; phase1.failed = {"a::f"} and
\* phase2.passed = {"a::f"} give FAIL_TO_PASS = {"a::f"}.
C9_FailToPassBase ==
    \A r \in Successes :
        LET base == Range(r.phase1.failed \o r.phase1.errors) \cap Range(r.phase2.passed)
        IN  /\ base \subseteq Range(r.FAIL_TO_PASS)
            /\ Range(r.FAIL_TO_PASS) \subseteq Range(r.phase2.passed)
            /\ (\A e \in Range(r.phase1.errors) : Contains(e, SEP))
                  => Range(r.FAIL_TO_PASS) = base
            /\ (Range(r.phase1.failed) = {A_F} /\ Range(r.phase2.passed) = {A_F})
                  => r.FAIL_TO_PASS = <<A_F>>

\* C9's case: "a::f" failed in phase 1 and passed in phase 2
C9_Witness ==
    \E r \in Successes :
        /\ r.phase1.failed = <<A_F>>
        /\ r.phase2.passed = <<A_F>>
        /\ r.FAIL_TO_PASS = <<A_F>>

\* C10: a run of the test runner that hits the timeout leaves its targets
\* indeterminate: after a phase-2 timeout no phase-1 pass is in regressions
\* and no phase-1 failure is in both_failed, and after a phase-1 timeout no
\* test is in phase1.failed or phase1.errors.
C10_TimeoutLeavesTargetsIndeterminate ==
    Persisted =>
        /\ (TimedOut("phase2") /\ LastResult.status = "success") =>
              /\ Range(LastResult.regressions) \cap Range(LastResult.phase1.passed) = {}
              /\ Range(LastResult.both_failed)
                    \cap Range(LastResult.phase1.failed \o LastResult.phase1.errors) = {}
        /\ TimedOut("phase1") =>
              /\ LastResult.phase1.failed = <<>>
              /\ Range(LastResult.phase1.errors) \subseteq {TIMEOUT}

\* C11: apply_patch never raises: whatever the two git apply invocations do
\* (exit 0, exit # 0, exceed the 60 s timeout), the step that calls it gets a
\* boolean back and the pipeline goes on from that boolean.
C11_ApplyPatchNeverRaises ==
    [][ (pc \in {"step2", "step4"}) =>
            /\ escaped' = "none"
            /\ \/ pc' \in {"step3", "phase2"}
               \/ (pc' = "save" /\ result'.error_message \in
                      {"Failed to apply test_patch", "Failed to apply source patch"})
      ]_vars

\* C12: after apply_patch has ended in any way (True on the strict apply,
\* True on the three-way apply, False, or an exception) no scratch patch
\* file is left in the working tree.
C12_ScratchFileRemoved == wt.tmp_patch = {}

\* C12's case: apply_patch wrote the file and was left by the timeout of
\* git apply
C12_Witness ==
    /\ escaped = "TimeoutExpired"
    /\ \E label \in {"test_patch", "source_patch"} :
          GitApply("", label, "timeout") \in Range(events)
    /\ wt.dir
    /\ wt.tmp_patch = {}

\* what the step being taken adds to events
NewEvents == SubSeq(events', Len(events) + 1, Len(events'))

\* the step calls apply_patch(patch, label) and goes to next on True
ApplyPatchContract(patch, label, next) ==
    LET cmds == SelectSeq(NewEvents, LAMBDA e : e \notin
                     {"git worktree prune"} \cup
                     UNION {Range(CleanupCommands(o)) : o \in {"ok", "nonzero", "raised"}})
        blank == \A i \in 1..Len(patch) : patch[i] \in Whitespace
        strict(how) == cmds # <<>> /\ cmds[1] = GitApply("", label, how)
        threeway(how) == Len(cmds) = 2 /\ cmds[2] = GitApply("--3way ", label, how)
        true == pc' = next
        false == pc' = "save" /\ escaped' = "none"
    IN  /\ blank => (true /\ cmds = <<>> /\ wt' = wt)
        /\ true <=> (blank \/ strict("0") \/ (strict("1") /\ threeway("0")))
        /\ false => (strict("1") /\ threeway("1"))
        /\ Len(cmds) <= 2
        /\ Len(cmds) = 2 => (strict("1") /\ \E how \in {"0", "1", "timeout"} : threeway(how))

\* C13: apply_patch returns True exactly when the patch text is empty or
\* whitespace only (then nothing is written and no command is run), or the
\* strict apply exits 0, or it fails and the three-way apply exits 0; it
\* returns False only when both fail, and the three-way apply is run only
\* after the strict apply failed.
C13_ApplyPatchReturnValue ==
    [][ /\ pc = "step2" => ApplyPatchContract(instance.test_patch, "test_patch", "step3")
        /\ pc = "step4" => ApplyPatchContract(instance.source_patch, "source_patch", "phase2")
      ]_vars

\* C13's case: the strict apply of the test patch failed, the three-way
\* apply succeeded and the pipeline went on
C13_Witness ==
    /\ pc = "step3"
    /\ GitApply("", "test_patch", "1") \in Range(events)
    /\ GitApply("--3way ", "test_patch", "0") \in Range(events)
    /\ "test_patch" \in wt.patches


\* C14: setup_worktree called again for a path where an earlier call left a
\* working tree succeeds and leaves exactly one fresh working tree there,
\* also when the earlier tree holds files a plain recursive remove cannot
\* delete; failures of git worktree add that have nothing to do with the
\* earlier tree (a timeout, an unknown revision) are left aside.
C14_SetupWorktreeIdempotent ==
    [][ (/\ pc = "step1"
         /\ wt.dir /\ wt.complete
         /\ events'[Len(events')] \notin {"git worktree add -> failed",
                                          "git worktree add -> timeout"})
        => (pc' = "step2" /\ wt' = FreshTree) ]_vars


\* C15: with keep_worktrees, when the pipeline has run to its end the files
\* of the working tree are still on disk and the store's worktree
\* bookkeeping has been pruned all the same (git worktree prune was run, or
\* the tree's entry is gone).
C15_KeepStillPrunes ==
    [][ (pc = "step5" /\ keep_worktrees) =>
            /\ wt'.dir
            /\ ("git worktree prune" \in Range(NewEvents) \/ ~wt'.reg) ]_vars


\* C16: after cleanup_worktree has returned, the directory of the working
\* tree is gone and the store has no entry for it, whether git worktree
\* remove exited 0, exited non-zero or raised.
C16_CleanupRemovesTree ==
    (pc = "save" /\ "cleanup_worktree" \in Range(events)) => (~wt.dir /\ ~wt.reg)


\* the step of the pipeline an event belongs to: 1 store, 2 working tree,
\* 3 test patch, 4 phase 1, 5 fix patch, 6 phase 2; 0 for the rest
Stage(e) ==
    CASE e \in {"git fetch -> 0", "git fetch -> failed", "git clone -> 0",
                "git clone -> failed"} -> 1
      [] e \in {"git worktree add -> 0", "git worktree add -> already exists",
                "git worktree add -> failed", "git worktree add -> timeout"} -> 2
      [] e \in {GitApply(f, "test_patch", how) :
                  f \in {"", "--3way "}, how \in {"0", "1", "timeout"}} -> 3
      [] e \in {"pytest phase1 -> exit", "pytest phase1 -> timeout"} -> 4
      [] e \in {GitApply(f, "source_patch", how) :
                  f \in {"", "--3way "}, how \in {"0", "1", "timeout"}} -> 5
      [] e \in {"pytest phase2 -> exit", "pytest phase2 -> timeout"} -> 6
      [] OTHER -> 0

\* the event says its step succeeded
StepSucceeded(e) ==
    e \in {"git fetch -> 0", "git fetch -> failed", "git clone -> 0", "git worktree add -> 0",
            "pytest phase1 -> exit", "pytest phase2 -> exit"}
          \cup {GitApply(f, label, "0") :
                  f \in {"", "--3way "}, label \in {"test_patch", "source_patch"}}

\* the event says its step failed (a failed strict apply does not: the
\* three-way apply of the same step follows)
StepFailed(e) ==
    Stage(e) > 0 /\ ~StepSucceeded(e)
        /\ e \notin {GitApply("", label, "1") : label \in {"test_patch", "source_patch"}}

\* the step has nothing to do: apply_patch on an empty patch text
NothingToDo(k) ==
    \/ k = 3 /\ \A i \in 1..Len(instance.test_patch) : instance.test_patch[i] \in Whitespace
    \/ k = 5 /\ \A i \in 1..Len(instance.source_patch) : instance.source_patch[i] \in Whitespace

\* the steps of one run come in the order of the pipeline, each after the
\* success of all earlier ones, and none after a failed one; timedOutFails
\* says whether a test run that hit the timeout counts as a failed step
StepOrder(timedOutFails) ==
    LET failed(e) == StepFailed(e) /\
                     (timedOutFails \/ e \notin {"pytest phase1 -> timeout",
                                                 "pytest phase2 -> timeout"})
        ok(e) == Stage(e) > 0 /\ ~failed(e)
    IN  /\ \A i, j \in DOMAIN events :
              (i < j /\ Stage(events[i]) > 0 /\ Stage(events[j]) > 0) =>
                 /\ Stage(events[i]) <= Stage(events[j])
                 /\ ~failed(events[i])
        /\ \A j \in DOMAIN events : \A k \in 1..(Stage(events[j]) - 1) :
              \/ NothingToDo(k)
              \/ \E i \in 1..(j - 1) : Stage(events[i]) = k /\ ok(events[i])
                                        /\ events[i] \notin
                                             {GitApply("", "test_patch", "1"),
                                              GitApply("", "source_patch", "1")}
        /\ (pc = "save" /\ escaped = "none" /\ result.status = "success") =>
              /\ \E i \in DOMAIN events : Stage(events[i]) = 4
              /\ \E i \in DOMAIN events : Stage(events[i]) = 6

\* C17: in one run of process_instance the steps store, working tree, test
\* patch, phase 1, fix patch, phase 2 occur only in this order, a step
\* starts only after every earlier step succeeded, no step follows a failed
\* one (a test run that hit the timeout included), and status "success" is
\* reached only after both phases have run.
C17_StepsInOrder == StepOrder(TRUE)


\* the same order with a test run that hit the timeout counted as a phase
\* that has run
StepsInOrderButTimeouts == StepOrder(FALSE)


\* C18: whatever fails in the instances, the loop of main goes through all
\* selected instances in order and saves exactly one result for each (no
\* exception ends the loop early), a failed instance leaves nothing behind
\* that changes what a later instance does (each instance finds the store
\* absent or complete), and an exception other than the timeout that leaves
\* process_instance becomes a result with status "error".
C18_DriverProcessesEveryInstance ==
    /\ pc # "crashed"
    /\ pc = "step0" => store \in {"absent", "ok"}
    /\ Len(all_results) <= Len(instances)
    /\ \A i \in 1..Len(all_results) :
          i <= Len(instances) => all_results[i].instance_id = instances[i].instance_id
    /\ pc = "exit" => Len(all_results) = Len(instances)
    /\ (pc = "save" /\ escaped \notin {"none", "TimeoutExpired"}) => result.status = "error"

\* the fields of the output schema
ResultFields ==
    {"instance_id", "version", "base_commit", "phase1", "phase2", "FAIL_TO_PASS",
     "PASS_TO_PASS", "regressions", "both_failed", "status", "error_message",
     "timestamps"}

\* C19: every saved result, on every path (success, partial, error return,
\* timeout fallback, catch-all fallback), has all fields of the output
\* schema.
C19_ResultHasAllFields ==
    \A r \in Range(all_results) : ResultFields \subseteq DOMAIN r

\* C20: when a test run has hit the timeout, the runner process and, in
\* docker mode, the container have been terminated before the pipeline
\* takes its next step: no container of this run is still running with the
\* working tree mounted.
C20_TimedOutContainerTerminated == containers = {}



\* C21: when several pipelines work on one shared store, their fetches and
\* clones never overlap: at any moment at most one of them is inside the git
\* command of ensure_bare_clone that writes the store.
C21_StoreWritesSerialised ==
    Cardinality({p \in DOMAIN pipelines : pipelines[p] \in {"fetching", "cloning"}}) <= 1


\* the events of the run that belong to step k of the pipeline
StageCount(k) == Cardinality({i \in DOMAIN events : Stage(events[i]) = k})

\* one run starts each command at most once, the apply tool at most twice
\* per patch, and a failed step is the last step of the run and leaves a
\* message in the result; timedOutFails says whether a test run that hit
\* the timeout counts as a failed step
NoRetry(timedOutFails) ==
    LET failed(e) == StepFailed(e) /\
                     (timedOutFails \/ e \notin {"pytest phase1 -> timeout",
                                                 "pytest phase2 -> timeout"})
    IN  /\ \A k \in {1, 2, 4, 6} : StageCount(k) <= 1
        /\ \A k \in {3, 5} : StageCount(k) <= 2
        /\ \A i \in DOMAIN events : failed(events[i]) =>
              /\ \A j \in (i + 1)..Len(events) : Stage(events[j]) = 0
              /\ pc \in {"save", "main", "exit", "crashed"}
              /\ result.status # "success"
              /\ result.error_message # ""

\* C22: in one run of process_instance nothing is retried but the apply of
\* a patch: the test runner is started at most once per phase, git worktree
\* add at most once, the clone or fetch of the store at most once, git apply
\* at most twice per patch; any other failure (a test run that hit the
\* timeout included) ends the run of the instance with a recorded message.
C22_NothingRetried == NoRetry(TRUE)

\* the same with a test run that hit the timeout counted as a phase that ran
NothingRetriedButTimeouts == NoRetry(FALSE)


\* the reports parse_pytest_log yields from the logs of the runner
LogReports ==
    {parse_pytest_log([exists |-> TRUE, lines |-> ls]) :
        ls \in SeqsUpTo(LogLineUniverse, MaxLines)}

\* parse_junit_xml of the phase found what shape says at the junit path
Parsed(phase, shape) == (("parse_junit_xml " \o phase) \o (" -> " \o shape)) \in Range(events)

\* the raw log of the phase was parsed
FellBack(phase) == ("parse_pytest_log " \o phase) \in Range(events)

\* a step that runs the tests of the phase without hitting the timeout and
\* returns to process_instance
PhaseReturns(phase) ==
    /\ pc = phase
    /\ pc' # phase
    /\ escaped' = "none"
    /\ ("pytest " \o phase \o " -> exit") \in Range(events')

FallbackExactly(phase, next) ==
    PhaseReturns(phase) =>
        /\ FellBack(phase)' <=> \E shape \in {"not found", "parse error", "no testcase"} :
                                    Parsed(phase, shape)'
        /\ ~FellBack(phase)' => (Parsed(phase, "testcases")' /\ result'[phase] # EmptyReport)
        /\ FellBack(phase)' => result'[phase] \in LogReports
        /\ pc' = next

\* the run went through both phases, one of them with a fallback that found
\* nothing, and process_instance has returned
EmptyFallback(phase) ==
    /\ pc = "save"
    /\ escaped = "none"
    /\ StageCount(6) = 1
    /\ FellBack(phase)
    /\ result[phase] = EmptyReport

\* C23: after a test run that did not hit the timeout the raw log is parsed
\* exactly when the structured report is missing, malformed or without any
\* entry, and the report of the phase is the structured one otherwise; when
\* the raw log yields nothing either the report of the phase is empty, the
\* pipeline goes on, and a run that went through both phases ends with
\* status "success" and empty FAIL_TO_PASS and PASS_TO_PASS.
C23_LogFallback ==
    /\ [][FallbackExactly("phase1", "step4") /\ FallbackExactly("phase2", "step5")]_vars
    /\ [](\A phase \in {"phase1", "phase2"} : EmptyFallback(phase) =>
              /\ result.status = "success"
              /\ result.FAIL_TO_PASS = <<>>
              /\ result.PASS_TO_PASS = <<>>)

C23_Witness ==
    /\ EmptyFallback("phase1")
    /\ Parsed("phase1", "parse error")
    /\ ~FellBack("phase2")
    /\ result.status = "success"


\* the command step 0 has just run
StoreCommand == events'[Len(events')]

\* C24: ensure_bare_clone clones only when the directory of the store does
\* not exist and fetches in it otherwise; a failed fetch is not fatal, the
\* pipeline goes on to create the working tree; a failed first clone ends
\* the run of the instance with status "error" and a message, and neither
\* git worktree add nor a phase is run.
C24_CloneOrRefresh ==
    /\ [][ (pc = "step0") =>
              /\ store = "absent" =>
                    StoreCommand \in {"git clone -> 0", "git clone -> failed"}
              /\ store # "absent" =>
                    /\ StoreCommand \in {"git fetch -> 0", "git fetch -> failed"}
                    /\ pc' = "step1"
                    /\ store' = store
              /\ StoreCommand = "git clone -> failed" =>
                    /\ pc' = "save"
                    /\ escaped' = "none"
                    /\ result'.status = "error"
                    /\ result'.error_message # "" ]_vars
    /\ []( /\ "git clone -> failed" \in Range(events) =>
                /\ \A k \in 2..6 : StageCount(k) = 0
                /\ pc \in {"save", "main", "exit", "crashed"}
           /\ ("git fetch -> failed" \in Range(events) /\ pc # "step1") =>
                StageCount(2) = 1 )

C24_Witness ==
    /\ Len(all_results) = 1
    /\ all_results[1].status = "error"
    /\ all_results[1].error_message = "Failed to create/update bare clone"
    /\ store = "partial"
    /\ pc = "save"
    /\ "git fetch -> failed" \in Range(events)
    /\ "git worktree add -> failed" \in Range(events)


\* process_instance has returned from a run in which no step failed and
\* whose instance has no test target
ReturnedWithoutTargets ==
    /\ pc = "save"
    /\ escaped = "none"
    /\ determine_test_targets(instance) = <<>>
    /\ \A i \in DOMAIN events : ~StepFailed(events[i])

\* C25: for an instance without test targets the test runner is not
\* started, and the outcome is not reported as an error: the status of the
\* instance's result is not "error".
C25_NoTargetsIsNotAnError ==
    ReturnedWithoutTargets => (StageCount(4) = 0 /\ result.status # "error")


\* the results of the instances main has processed: the saved ones and,
\* when main ended in save_result, the one it was saving
Processed == Range(all_results) \cup (IF pc = "crashed" THEN {result} ELSE {})

\* the exit status is non-zero exactly when an instance did not reach
\* "success"
ExitCodeTellsFailure ==
    (exit_code # 0) <=> (\E r \in Processed : r.status # "success")

\* C26: main exits with a non-zero status if and only if at least one
\* processed instance has a status other than "success", and with zero when
\* every instance reached "success".
C26_ExitCode == (pc \in {"exit", "crashed"}) => ExitCodeTellsFailure

\* the same for the runs of main that reach the end of its loop
ExitCodeAfterLoop == (pc = "exit" /\ instances # <<>>) => ExitCodeTellsFailure


\* the report with the same four sets of node ids, each listed once and in
\* ascending order
AsSets(rep) == [k \in DOMAIN rep |-> Sorted(Range(rep[k]))]

\* strictly ascending: sorted and without duplicates
Ascending(q) == \A i \in 1..(Len(q) - 1) : StrLess(q[i], q[i + 1])

\* the four lists of the result are ascending and are the ones the
\* classification yields from the two reports taken as sets
ListsFromSets(lists) ==
    (pc = "save" /\ escaped = "none" /\ result.status = "success") =>
        LET c == Classify(AsSets(result.phase1), AsSets(result.phase2))
        IN  \A k \in lists : Ascending(result[k]) /\ result[k] = c[k]

\* C27: FAIL_TO_PASS, PASS_TO_PASS, regressions and both_failed are each
\* without duplicates and in ascending order, and depend only on the two
\* phase reports as sets: reports that list the same node ids in another
\* order or more than once give the same four lists.
C27_ListsDependOnSetsOnly ==
    ListsFromSets({"FAIL_TO_PASS", "PASS_TO_PASS", "regressions", "both_failed"})

\* the same for the three lists other than both_failed
ListsButBothFailedFromSets == ListsFromSets({"FAIL_TO_PASS", "PASS_TO_PASS", "regressions"})


\* the patches a tree holds once step k, the apply of a patch, is through
AppliedBy(k) ==
    (IF k >= 3 /\ ~NothingToDo(3) THEN {"test_patch"} ELSE {}) \cup
    (IF k >= 5 /\ ~NothingToDo(5) THEN {"source_patch"} ELSE {})

\* C28: whenever phase 1 starts the working tree is a complete checkout of
\* the base revision with the test patch and nothing else, never the fix
\* patch, also in a run that found the tree of an earlier attempt with the
\* fix patch applied; whenever phase 2 starts the tree holds the test patch
\* and the fix patch.
C28_PhaseTrees ==
    /\ (pc = "phase1") =>
          (wt.dir /\ wt.complete /\ wt.patches = AppliedBy(3))
    /\ (pc = "phase2") =>
          (wt.dir /\ wt.complete /\ wt.patches = AppliedBy(5))

C28_Witness ==
    /\ pc = "phase2"
    /\ "git worktree remove" \in Range(events)
    /\ wt.patches = {"test_patch", "source_patch"}


\* the phase ran to the parsing of its report and the file an earlier run
\* left at its junit path is still the one there
ParsedOverStale(phase) ==
    /\ junit[phase].exists
    /\ \E shape \in {"not found", "parse error", "no testcase", "testcases"} :
          Parsed(phase, shape)

\* C29: the report of a phase comes from the output of the phase's own test
\* run only: a structured report file that an earlier run left at the same
\* path is never parsed, also when the run of this phase ends without
\* writing one; parse_junit_xml then finds no report and the phase's report
\* is what the raw log of the run yields.
C29_ReportFromOwnRun ==
    \A phase \in {"phase1", "phase2"} :
        ParsedOverStale(phase) =>
            (Parsed(phase, "not found") /\ result[phase] \in LogReports)


\* both phases ran and the classification of their reports is in r
Classified(r) ==
    /\ {"phase1_end", "phase2_end"} \subseteq r.timestamps
    /\ {"regressions", "both_failed"} \subseteq DOMAIN r
    /\ LET c == Classify(r.phase1, r.phase2)
       IN  \A k \in DOMAIN c : r[k] = c[k]

\* C30: in every saved result the status is one of success, partial, error
\* and timeout; it is "success" only if both phases ran and the
\* classification was computed; a result whose status is not "success" has
\* empty FAIL_TO_PASS and PASS_TO_PASS and a non-empty error_message, and a
\* "success" result has an empty error_message.
C30_StatusAndMessage ==
    \A i \in DOMAIN all_results :
        LET r == all_results[i]
        IN  /\ r.status \in {"success", "partial", "error", "timeout"}
            /\ r.status = "success" => (Classified(r) /\ r.error_message = "")
            /\ r.status # "success" =>
                  /\ r.FAIL_TO_PASS = <<>>
                  /\ r.PASS_TO_PASS = <<>>
                  /\ r.error_message # ""

C30_Witness ==
    /\ Len(all_results) = 2
    /\ all_results[1].status = "partial"
    /\ all_results[1].phase1.passed # <<>>
    /\ all_results[2].status = "success"
    /\ all_results[2].FAIL_TO_PASS # <<>>

=============================================================================









